---- MODULE Spec2Model ----
(***************************************************************************)
(* Model of src/web_scraping.py: the SentimentScraper class.               *)
(*                                                                         *)
(* One process constructs a SentimentScraper (environment check, client    *)
(* construction) and then calls its public methods one at a time:          *)
(* scrape_youtube_comments, scrape_reddit_thread,                          *)
(* scrape_multiple_reddit_threads and save_to_csv.  The platforms are the  *)
(* environment: what they serve for a call is chosen when the call starts, *)
(* and whether a fetch succeeds is chosen when the fetch is made.          *)
(***************************************************************************)
EXTENDS Integers, Sequences, FiniteSets, TLC

(* ------------------------------ bounds -------------------------------- *)

\* pages the platform serves for one video
MaxPages == 3
\* items on one page
MaxPageSize == 2
\* thread URLs passed to scrape_multiple_reddit_threads
MaxUrls == 3
\* entries of one Reddit thread
MaxComments == 2

(* ------------------------ program constants --------------------------- *)

\* default of the max_results parameter
DefaultMaxResults == 100

required_vars ==
    <<"YOUTUBE_API_KEY", "REDDIT_CLIENT_ID", "REDDIT_CLIENT_SECRET", "REDDIT_USER_AGENT">>

\* column order of the dicts appended by scrape_youtube_comments
YouTubeColumns == <<"comment", "author", "likes", "published_at">>

\* column order of the dicts appended by scrape_reddit_thread
RedditColumns == <<"comment", "author", "score", "created_utc">>

(* --------------------------- input domains ---------------------------- *)

\* os.getenv of a variable: None when unset, else its (possibly empty) value
None == "<None>"
EnvValues == {None, "", "secret"}

VideoIds == {"uUo5gnaYB_w"}

ThreadUrls == {"r/xbox", "r/Games"}

(* ------------------------------- state -------------------------------- *)

VARIABLES
    env,            \* process environment: variable name -> value
    pc,             \* where the process is
    exitCode,       \* <<>> while running, <<c>> after sys.exit(c)
    clients,        \* API clients constructed so far
    op,             \* the scrape operation that is running or ran last
    video,          \* YouTube: the chain of pages served for the video
    request,        \* YouTube: <<>> or <<the request object of the loop>>
    comments_data,  \* YouTube: the list of rows gathered so far
    fetchLog,       \* YouTube: the request.execute() calls made, with outcome
    reddit,         \* Reddit: thread URL -> what the platform serves for it
    thread_urls,    \* Reddit: the URL argument(s) of the call
    idx,            \* multi: position of the for loop in thread_urls
    all_comments,   \* multi: list of per-thread frames kept
    scraped,        \* Reddit: the URLs scrape_reddit_thread was called with
    result,         \* the DataFrame returned by the last scrape
    files           \* the files written by save_to_csv for that result

vars == <<env, pc, exitCode, clients, op, video, request, comments_data, fetchLog,
          reddit, thread_urls, idx, all_comments, scraped, result, files>>

(* ------------------------------ helpers ------------------------------- *)

Range(s) == {s[i] : i \in 1..Len(s)}

HasKey(d, k) == k \in DOMAIN d

\* Python truthiness of a string-or-None
Truthy(x) == x \notin {None, ""}

\* pd.DataFrame(): no columns, no rows
EmptyDataFrame == [columns |-> <<>>, rows |-> <<>>]

\* pd.DataFrame(list_of_dicts): the columns are the keys of the dicts; an
\* empty list gives a frame with no columns at all
DataFrame(rows, cols) ==
    IF rows = <<>> THEN EmptyDataFrame ELSE [columns |-> cols, rows |-> rows]

\* df.empty: some axis has length 0
IsEmpty(df) == Len(df.columns) = 0 \/ Len(df.rows) = 0

(* ------------------------- construction ------------------------------- *)

Getenv(v) == env[v]

MissingVarsNoneOnly == SelectSeq(required_vars, LAMBDA v : Getenv(v) = None)

\* missing_vars = [var for var in required_vars if not os.getenv(var)]
MissingVars == SelectSeq(required_vars, LAMBDA v : ~Truthy(Getenv(v)))

\* _validate_environment
ValidateEnvironment ==
    /\ pc = "new"
    /\ IF MissingVars # <<>>
          THEN /\ pc' = "exited"
               /\ exitCode' = <<1>>
          ELSE /\ pc' = "validated"
               /\ exitCode' = exitCode
    /\ UNCHANGED <<env, clients, op, video, request, comments_data, fetchLog, reddit,
                   thread_urls, idx, all_comments, scraped, result, files>>

\* _initialize_clients: build(...) then praw.Reddit(...); any exception exits
InitializeClients ==
    /\ pc = "validated"
    /\ \E outcome \in {"ok", "youtube_raises", "reddit_raises"} :
          CASE outcome = "ok" ->
                  /\ clients' = {"youtube", "reddit"}
                  /\ pc' = "ready"
                  /\ exitCode' = exitCode
            [] outcome = "youtube_raises" ->
                  /\ clients' = {}
                  /\ pc' = "exited"
                  /\ exitCode' = <<1>>
            [] outcome = "reddit_raises" ->
                  /\ clients' = {"youtube"}
                  /\ pc' = "exited"
                  /\ exitCode' = <<1>>
    /\ UNCHANGED <<env, op, video, request, comments_data, fetchLog, reddit,
                   thread_urls, idx, all_comments, scraped, result, files>>

\* the caller holds a constructed scraper and no result: it can start a scrape
Callable == pc = "ready"

(* ----------------------- YouTube: the platform ------------------------ *)

\* the snippet of comment number n
CommentSnippet(n) ==
    [textDisplay |-> n, authorDisplayName |-> "viewer",
     likeCount |-> n, publishedAt |-> <<"iso", n>>]

ItemKinds == {"ok", "noLikeCount", "noTopLevelComment"}

\* the commentThread item number n; the two bad kinds lack an expected field
Item(n, kind) ==
    CASE kind = "ok" ->
            [snippet |-> [topLevelComment |-> [snippet |-> CommentSnippet(n)]]]
      [] kind = "noLikeCount" ->
            [snippet |-> [topLevelComment |-> [snippet |->
                [textDisplay |-> n, authorDisplayName |-> "viewer",
                 publishedAt |-> <<"iso", n>>]]]]
      [] kind = "noTopLevelComment" ->
            [snippet |-> [videoId |-> n]]

PageToken(k) == <<"token", k>>

RECURSIVE SumTo(_, _)
SumTo(sizes, k) == IF k = 0 THEN 0 ELSE sizes[k] + SumTo(sizes, k - 1)

\* The chain served for a video: page k holds sizes[k] items, numbered on in
\* page order; every page but the last carries nextPageToken; item `bad` (0:
\* none) is of kind badKind.
Chain(sizes, bad, badKind) ==
    [k \in 1..Len(sizes) |->
        LET items == [j \in 1..sizes[k] |->
                        LET n == SumTo(sizes, k - 1) + j
                        IN Item(n, IF n = bad THEN badKind ELSE "ok")]
        IN IF k < Len(sizes)
              THEN [items |-> items, nextPageToken |-> PageToken(k + 1)]
              ELSE [items |-> items]]

PageSizes == UNION {[1..p -> 0..MaxPageSize] : p \in 1..MaxPages}

\* the page a request asks for
PageOf(req) == IF HasKey(req, "pageToken") THEN req.pageToken[2] ELSE 1

(* ------------------- scrape_youtube_comments -------------------------- *)

\* self.youtube.commentThreads().list(part=..., videoId=..., maxResults=...)
FirstRequest(video_id, max_results) ==
    [videoId |-> video_id, maxResults |-> max_results]

\* the same with pageToken=...
PageRequest(video_id, max_results, token) ==
    [videoId |-> video_id, maxResults |-> max_results, pageToken |-> token]

\* One item of the for loop: the subscripts raise KeyError on a missing key.
DecodeItem(item) ==
    IF /\ HasKey(item, "snippet")
       /\ HasKey(item.snippet, "topLevelComment")
       /\ HasKey(item.snippet.topLevelComment, "snippet")
       /\ LET c == item.snippet.topLevelComment.snippet
          IN  /\ HasKey(c, "textDisplay")
              /\ HasKey(c, "authorDisplayName")
              /\ HasKey(c, "likeCount")
              /\ HasKey(c, "publishedAt")
    THEN LET c == item.snippet.topLevelComment.snippet
         IN [raised |-> FALSE,
             row |-> [comment |-> c.textDisplay, author |-> c.authorDisplayName,
                      likes |-> c.likeCount, published_at |-> c.publishedAt]]
    ELSE [raised |-> TRUE]

\* for item in response['items']: comments_data.append({...})
RECURSIVE DecodeItems(_, _)
DecodeItems(acc, items) ==
    IF items = <<>> THEN [raised |-> FALSE, rows |-> acc]
    ELSE LET d == DecodeItem(Head(items))
         IN IF d.raised THEN [raised |-> TRUE, rows |-> acc]
            ELSE DecodeItems(Append(acc, d.row), Tail(items))

NextRequestBreak(req, response) == <<>>

\* if 'nextPageToken' in response: request = ...list(pageToken=...) else: break
\* (<<>> stands for leaving the loop)
NextRequest(req, response) ==
    IF HasKey(response, "nextPageToken")
       THEN <<PageRequest(req.videoId, req.maxResults, response.nextPageToken)>>
       ELSE <<>>

\* the call, up to the first test of `while request`
ScrapeYouTubeStart ==
    /\ Callable
    /\ \E video_id \in VideoIds, sizes \in PageSizes :
       \E bad \in 0..SumTo(sizes, Len(sizes)) :
       \E badKind \in (IF bad = 0 THEN {"ok"} ELSE ItemKinds \ {"ok"}) :
          /\ video' = Chain(sizes, bad, badKind)
          /\ request' = <<FirstRequest(video_id, DefaultMaxResults)>>
    /\ op' = "youtube"
    /\ pc' = "yt_loop"
    /\ comments_data' = <<>>
    /\ fetchLog' = <<>>
    /\ UNCHANGED <<env, exitCode, clients, reddit, thread_urls, idx, all_comments,
                   scraped, result, files>>

\* request.execute() raises: except Exception -> return pd.DataFrame()
ExecuteRaises ==
    /\ pc = "yt_loop"
    /\ request # <<>>
    /\ fetchLog' = Append(fetchLog, [request |-> request[1], ok |-> FALSE])
    /\ result' = EmptyDataFrame
    /\ pc' = "have_df"
    /\ request' = <<>>
    /\ UNCHANGED <<env, exitCode, clients, op, video, comments_data, reddit,
                   thread_urls, idx, all_comments, scraped, files>>

\* One iteration of the while loop whose request.execute() returns a page.
ExecuteReturns ==
    /\ pc = "yt_loop"
    /\ request # <<>>
    /\ PageOf(request[1]) \in 1..Len(video)
    /\ LET response == video[PageOf(request[1])]
           decoded  == DecodeItems(comments_data, response.items)
           next     == NextRequest(request[1], response)
       IN /\ fetchLog' = Append(fetchLog, [request |-> request[1], ok |-> TRUE])
          /\ comments_data' = decoded.rows
          /\ IF decoded.raised
                THEN \* KeyError: except Exception -> return pd.DataFrame()
                     /\ result' = EmptyDataFrame
                     /\ pc' = "have_df"
                     /\ request' = <<>>
                ELSE IF next = <<>>
                THEN \* break; df = pd.DataFrame(comments_data); return df
                     /\ result' = DataFrame(decoded.rows, YouTubeColumns)
                     /\ pc' = "have_df"
                     /\ request' = <<>>
                ELSE /\ request' = next
                     /\ UNCHANGED <<result, pc>>
    /\ UNCHANGED <<env, exitCode, clients, op, video, reddit,
                   thread_urls, idx, all_comments, scraped, files>>

(* ------------------------ Reddit: the platform ----------------------- *)

EntryKinds == {"plain", "deleted", "more"}

\* comment number i of the thread at url; author is <<>> for None (a deleted
\* account) and <<name>> for a Redditor
RedditComment(url, i, deleted) ==
    [body |-> <<url, i>>, author |-> IF deleted THEN <<>> ELSE <<"redditor">>,
     score |-> i, created_utc |-> i]

\* entry i of a thread: a comment, or a MoreComments placeholder (no body
\* attribute) that hides one comment
Entry(url, i, kind) ==
    CASE kind = "plain"   -> RedditComment(url, i, FALSE)
      [] kind = "deleted" -> RedditComment(url, i, TRUE)
      [] kind = "more"    -> [count |-> 1, hidden |-> RedditComment(url, i, FALSE)]

\* what the platform serves for a thread; ok = FALSE: the fetch raises
Thread(url, shape) ==
    [ok |-> shape.ok,
     comments |-> [i \in 1..Len(shape.kinds) |-> Entry(url, i, shape.kinds[i])]]

ThreadShapes ==
    {[ok |-> FALSE, kinds |-> <<>>]} \cup
    {[ok |-> TRUE, kinds |-> ks] : ks \in UNION {[1..n -> EntryKinds] : n \in 0..MaxComments}}

UrlLists == UNION {[1..n -> ThreadUrls] : n \in 0..MaxUrls}

(* ----------------------- scrape_reddit_thread ------------------------- *)

\* submission.comments.replace_more(limit=None); submission.comments.list():
\* every placeholder is replaced by the comments it hides
ReplaceMore(comments) ==
    [i \in 1..Len(comments) |->
        IF HasKey(comments[i], "hidden") THEN comments[i].hidden ELSE comments[i]]

\* datetime.fromtimestamp(t): a naive datetime in local time
FromTimestamp(t) == <<"naive_local", t>>

\* the dict appended for one comment
RedditRow(c) ==
    [comment |-> c.body,
     author |-> IF c.author # <<>> THEN c.author[1] ELSE "[deleted]",
     score |-> c.score,
     created_utc |-> FromTimestamp(c.created_utc)]

\* for comment in comments: if hasattr(comment, 'body'): comments_data.append
RECURSIVE RedditRows(_)
RedditRows(comments) ==
    IF comments = <<>> THEN <<>>
    ELSE IF HasKey(Head(comments), "body")
         THEN <<RedditRow(Head(comments))>> \o RedditRows(Tail(comments))
         ELSE RedditRows(Tail(comments))

\* scrape_reddit_thread(thread_url, include_replies) against what the
\* platform serves for thread_url
ScrapeRedditThread(thread, include_replies) ==
    IF ~thread.ok
       THEN EmptyDataFrame           \* except Exception: return pd.DataFrame()
       ELSE LET comments == IF include_replies THEN ReplaceMore(thread.comments)
                                               ELSE thread.comments
            IN DataFrame(RedditRows(comments), RedditColumns)

\* a call of scrape_reddit_thread by the caller
ScrapeRedditThreadCall ==
    /\ Callable
    /\ \E url \in ThreadUrls, include_replies \in BOOLEAN,
          shape \in [ThreadUrls -> ThreadShapes] :
          /\ reddit' = [u \in ThreadUrls |-> Thread(u, shape[u])]
          /\ thread_urls' = <<url>>
          /\ scraped' = <<url>>
          /\ result' = ScrapeRedditThread(reddit'[url], include_replies)
    /\ op' = "reddit"
    /\ pc' = "have_df"
    /\ UNCHANGED <<env, exitCode, clients, video, request, comments_data, fetchLog,
                   idx, all_comments, files>>

(* ------------------ scrape_multiple_reddit_threads -------------------- *)

TagSourceFirst(df, url) ==
    [columns |-> Append(df.columns, "source_url"),
     rows |-> [i \in 1..Len(df.rows) |-> df.rows[i] @@ ("source_url" :> thread_urls[1])]]

\* df['source_url'] = url
TagSource(df, url) ==
    [columns |-> Append(df.columns, "source_url"),
     rows |-> [i \in 1..Len(df.rows) |-> df.rows[i] @@ ("source_url" :> url)]]

RECURSIVE FlattenRows(_)
FlattenRows(frames) ==
    IF frames = <<>> THEN <<>> ELSE Head(frames).rows \o FlattenRows(Tail(frames))

RECURSIVE UnionColumns(_, _)
UnionColumns(acc, frames) ==
    IF frames = <<>> THEN acc
    ELSE UnionColumns(acc \o SelectSeq(Head(frames).columns, LAMBDA c : c \notin Range(acc)),
                      Tail(frames))

ConcatReversed(frames) ==
    [columns |-> UnionColumns(<<>>, frames),
     rows |-> FlattenRows([i \in 1..Len(frames) |-> frames[Len(frames) + 1 - i]])]

\* pd.concat(frames, ignore_index=True): the rows of the frames one after the
\* other, renumbered; the columns in order of first appearance
Concat(frames) ==
    [columns |-> UnionColumns(<<>>, frames), rows |-> FlattenRows(frames)]

\* the call, up to the first turn of the for loop
ScrapeMultipleStart ==
    /\ Callable
    /\ \E urls \in UrlLists, shape \in [ThreadUrls -> ThreadShapes] :
          /\ reddit' = [u \in ThreadUrls |-> Thread(u, shape[u])]
          /\ thread_urls' = urls
    /\ op' = "multi"
    /\ pc' = "multi_loop"
    /\ idx' = 1
    /\ all_comments' = <<>>
    /\ scraped' = <<>>
    /\ UNCHANGED <<env, exitCode, clients, video, request, comments_data, fetchLog,
                   result, files>>

MultiStepBreakOnEmpty ==
    /\ pc = "multi_loop"
    /\ idx <= Len(thread_urls)
    /\ LET url == thread_urls[idx]
           df  == ScrapeRedditThread(reddit[url], TRUE)
       IN /\ scraped' = Append(scraped, url)
          /\ IF ~IsEmpty(df)
                THEN /\ all_comments' = Append(all_comments, TagSource(df, url))
                     /\ idx' = idx + 1
                ELSE /\ all_comments' = all_comments
                     /\ idx' = Len(thread_urls) + 1
    /\ UNCHANGED <<env, pc, exitCode, clients, op, video, request, comments_data,
                   fetchLog, reddit, thread_urls, result, files>>

\* one turn of `for url in thread_urls`
MultiStep ==
    /\ pc = "multi_loop"
    /\ idx <= Len(thread_urls)
    /\ LET url == thread_urls[idx]
           df  == ScrapeRedditThread(reddit[url], TRUE)
       IN /\ scraped' = Append(scraped, url)
          /\ IF ~IsEmpty(df)
                THEN all_comments' = Append(all_comments, TagSource(df, url))
                ELSE all_comments' = all_comments
    /\ idx' = idx + 1
    /\ UNCHANGED <<env, pc, exitCode, clients, op, video, request, comments_data,
                   fetchLog, reddit, thread_urls, result, files>>

\* after the loop: concat when any frame was kept, else pd.DataFrame()
MultiReturn ==
    /\ pc = "multi_loop"
    /\ idx > Len(thread_urls)
    /\ result' = IF all_comments # <<>> THEN Concat(all_comments) ELSE EmptyDataFrame
    /\ pc' = "have_df"
    /\ UNCHANGED <<env, exitCode, clients, op, video, request, comments_data,
                   fetchLog, reddit, thread_urls, idx, all_comments, scraped, files>>

(* ---------------------------- save_to_csv ----------------------------- *)

ToCsvDropDeleted(df) ==
    LET kept == SelectSeq(df.rows, LAMBDA r : r.author # "[deleted]")
    IN [header |-> df.columns,
        data |-> [i \in 1..Len(kept) |->
                    [j \in 1..Len(df.columns) |-> kept[i][df.columns[j]]]]]

\* df.to_csv(filepath, index=False): the header line holds the column names,
\* then one line per row with the row's values in column order
ToCsv(df) ==
    [header |-> df.columns,
     data |-> [i \in 1..Len(df.rows) |->
                 [j \in 1..Len(df.columns) |-> df.rows[i][df.columns[j]]]]]

\* save_to_csv(df, filename) on the frame the caller holds.  The file's name
\* (directory, base name, timestamp) is left out: only its content is read.
SaveToCsv ==
    /\ pc = "have_df"
    /\ files' = Append(files, ToCsv(result))
    /\ pc' = "saved"
    /\ UNCHANGED <<env, exitCode, clients, op, video, request, comments_data, fetchLog,
                   reddit, thread_urls, idx, all_comments, scraped, result>>

\* the caller is done with the frame (main goes on to its next call)
Done ==
    /\ pc \in {"have_df", "saved"}
    /\ pc' = "ready"
    /\ op' = "none"
    /\ video' = <<>>
    /\ request' = <<>>
    /\ comments_data' = <<>>
    /\ fetchLog' = <<>>
    /\ reddit' = <<>>
    /\ thread_urls' = <<>>
    /\ idx' = 0
    /\ all_comments' = <<>>
    /\ scraped' = <<>>
    /\ result' = EmptyDataFrame
    /\ files' = <<>>
    /\ UNCHANGED <<env, exitCode, clients>>

(* ------------------------------ whole -------------------------------- *)

Init ==
    /\ env \in [Range(required_vars) -> EnvValues]
    /\ pc = "new"
    /\ exitCode = <<>>
    /\ clients = {}
    /\ op = "none"
    /\ video = <<>>
    /\ request = <<>>
    /\ comments_data = <<>>
    /\ fetchLog = <<>>
    /\ reddit = <<>>
    /\ thread_urls = <<>>
    /\ idx = 0
    /\ all_comments = <<>>
    /\ scraped = <<>>
    /\ result = EmptyDataFrame
    /\ files = <<>>

Next ==
    \/ ValidateEnvironment
    \/ InitializeClients
    \/ ScrapeYouTubeStart
    \/ ExecuteRaises
    \/ ExecuteReturns
    \/ ScrapeRedditThreadCall
    \/ ScrapeMultipleStart
    \/ MultiStep
    \/ MultiReturn
    \/ SaveToCsv
    \/ Done

Spec == Init /\ [][Next]_vars

(* ===================================================================== *)
(*                               Properties                              *)
(* ===================================================================== *)

Returned == pc \in {"have_df", "saved"}

(* ------------------------- YouTube vocabulary ------------------------- *)

RECURSIVE FlattenItems(_)
FlattenItems(pages) ==
    IF pages = <<>> THEN <<>> ELSE Head(pages).items \o FlattenItems(Tail(pages))

\* the items of pages 1..k, in page order and then in-page order
ItemsUpTo(k) == FlattenItems(SubSeq(video, 1, k))

\* an item that lacks an expected field
Malformed(item) ==
    ~(/\ HasKey(item.snippet, "topLevelComment")
      /\ HasKey(item.snippet.topLevelComment.snippet, "likeCount"))

MalformedIn(items) == {n \in 1..Len(items) : Malformed(items[n])}

\* the comment expected for well-formed item number n
ExpectedRow(n) ==
    [comment |-> n, author |-> "viewer", likes |-> n, published_at |-> <<"iso", n>>]

AllFetchesOk == \A i \in 1..Len(fetchLog) : fetchLog[i].ok

\* C1. Partial success: when the fetch of page k >= 2 fails after pages
\* 1..k-1 were fetched and decoded, scrape_youtube_comments returns exactly
\* the comments of pages 1..k-1, in arrival order.
C1_PartialOnFetchFailure ==
    (/\ Returned
     /\ op = "youtube"
     /\ Len(fetchLog) >= 2
     /\ ~fetchLog[Len(fetchLog)].ok
     /\ MalformedIn(ItemsUpTo(Len(fetchLog) - 1)) = {})
    => result.rows = [n \in 1..Len(ItemsUpTo(Len(fetchLog) - 1)) |-> ExpectedRow(n)]

\* C4. Pagination completeness: with no fetch failure and no decode failure,
\* a video served as P pages holding N items yields exactly N comments, one
\* per item, in page order and then in-page order.
C4_PaginationComplete ==
    (/\ Returned
     /\ op = "youtube"
     /\ AllFetchesOk
     /\ MalformedIn(ItemsUpTo(Len(video))) = {})
    => result.rows = [n \in 1..Len(ItemsUpTo(Len(video))) |-> ExpectedRow(n)]

C4_Witness ==
    /\ pc = "have_df"
    /\ op = "youtube"
    /\ AllFetchesOk
    /\ MalformedIn(ItemsUpTo(Len(video))) = {}
    /\ Len(video) >= 2
    /\ Len(video[1].items) >= 1
    /\ Len(result.rows) >= 3

\* C5. Best-effort decoding: when exactly one item lacks an expected field
\* and no fetch fails, the result holds every other item's comment, in order
\* (the bad item skipped, or kept with sentinel values).
C5_BestEffortPerItem ==
    (/\ Returned
     /\ op = "youtube"
     /\ AllFetchesOk
     /\ Cardinality(MalformedIn(ItemsUpTo(Len(video)))) = 1)
    => LET N    == Len(ItemsUpTo(Len(video)))
           bad  == CHOOSE n \in MalformedIn(ItemsUpTo(Len(video))) : TRUE
           good == SelectSeq([n \in 1..N |-> n], LAMBDA n : n # bad)
       IN \/ result.rows = [i \in 1..Len(good) |-> ExpectedRow(good[i])]
          \/ /\ Len(result.rows) = N
             /\ \A n \in 1..N : n # bad => result.rows[n] = ExpectedRow(n)

\* C10. Pagination termination: for a chain of P pages the loop terminates
\* after exactly P fetches, each using the token the previous response
\* returned; no fetch follows a response without nextPageToken or a failed
\* fetch.
C10_ExactlyPFetches ==
    op = "youtube" =>
        /\ \A i \in 1..Len(fetchLog) :
              IF i = 1
                 THEN ~HasKey(fetchLog[i].request, "pageToken")
                 ELSE /\ fetchLog[i - 1].ok
                      /\ HasKey(video[PageOf(fetchLog[i - 1].request)], "nextPageToken")
                      /\ HasKey(fetchLog[i].request, "pageToken")
                      /\ fetchLog[i].request.pageToken =
                            video[PageOf(fetchLog[i - 1].request)].nextPageToken
        /\ Len(fetchLog) <= Len(video)
        /\ pc = "yt_loop" => ENABLED (ExecuteRaises \/ ExecuteReturns)
        /\ (Returned /\ AllFetchesOk) => Len(fetchLog) = Len(video)

(* ------------------------ construction -------------------------------- *)

MissingEnv == \E v \in Range(required_vars) : env[v] \in {None, ""}

\* C6. Startup credential check: with a required variable unset or empty the
\* process exits with code 1 before any client is constructed and before any
\* scrape or export runs.
C6_StartupCredentialCheck ==
    MissingEnv =>
        /\ clients = {}
        /\ op = "none"
        /\ files = <<>>
        /\ pc \in {"new", "exited"}
        /\ pc = "new" => ENABLED ValidateEnvironment
        /\ pc = "exited" => exitCode = <<1>>

C6_Witness ==
    /\ pc = "exited"
    /\ exitCode = <<1>>
    /\ clients = {}
    /\ \E v \in Range(required_vars) :
          /\ env[v] = ""
          /\ \A w \in Range(required_vars) \ {v} : env[w] = "secret"

(* ------------------------------ Reddit -------------------------------- *)

\* the frame scrape_reddit_thread returns for the i-th URL of the list
PerThread(i) == ScrapeRedditThread(reddit[thread_urls[i]], TRUE)

RECURSIVE PerThreadRowsUpTo(_)
PerThreadRowsUpTo(n) ==
    IF n = 0 THEN <<>> ELSE PerThreadRowsUpTo(n - 1) \o PerThread(n).rows

\* a row of the combined frame without the column the combination adds
StripSource(row) == [c \in DOMAIN row \ {"source_url"} |-> row[c]]

StripSourceAll(rows) == [i \in 1..Len(rows) |-> StripSource(rows[i])]

RECURSIVE Repeat(_, _)
Repeat(s, n) == IF n = 0 THEN <<>> ELSE s \o Repeat(s, n - 1)

Occurrences(u) == Cardinality({i \in 1..Len(thread_urls) : thread_urls[i] = u})

\* C2. Concatenation order: the combined result is the per-thread results
\* one after the other in input order; nothing reordered, duplicated, removed.
C2_ConcatenationOrder ==
    (Returned /\ op = "multi")
    => StripSourceAll(result.rows) = PerThreadRowsUpTo(Len(thread_urls))

C2_Witness ==
    /\ pc = "have_df"
    /\ op = "multi"
    /\ Len(thread_urls) >= 2
    /\ thread_urls[1] # thread_urls[2]
    /\ Len(PerThread(1).rows) >= 2
    /\ Len(PerThread(2).rows) >= 1

\* C3. Independence of resources: a thread that fails or yields nothing does
\* not stop the loop; every URL is scraped, every thread with comments
\* contributes all its rows, the others contribute no row.
C3_IndependentResources ==
    op = "multi" =>
        /\ pc = "multi_loop" => scraped = SubSeq(thread_urls, 1, idx - 1)
        /\ Returned =>
              /\ scraped = thread_urls
              /\ Len(result.rows) = Len(PerThreadRowsUpTo(Len(thread_urls)))
              /\ \A i \in 1..Len(result.rows) :
                    Range(RedditColumns) \subseteq DOMAIN result.rows[i]
              /\ \A u \in ThreadUrls :
                    StripSourceAll(SelectSeq(result.rows, LAMBDA r : r.source_url = u))
                       = Repeat(ScrapeRedditThread(reddit[u], TRUE).rows, Occurrences(u))

C3_Witness ==
    /\ pc = "have_df"
    /\ op = "multi"
    /\ Len(thread_urls) = 3
    /\ ~reddit[thread_urls[1]].ok
    /\ reddit[thread_urls[2]].ok
    /\ Len(PerThread(2).rows) >= 1
    /\ IsEmpty(PerThread(3))
    /\ Len(result.rows) >= 1

\* the resource a row of the result was scraped from
ResourceOf(row) ==
    CASE op = "youtube" -> fetchLog[1].request.videoId
      [] op = "reddit"  -> thread_urls[1]
      [] op = "multi"   -> row.comment[1]

DataColumns == Range(YouTubeColumns) \cup Range(RedditColumns)

\* C8 as stated. Every comment of every collection result carries the
\* identifier of the resource it was scraped from.
C8_ResourceIdOnEveryComment ==
    Returned =>
        \A i \in 1..Len(result.rows) :
            \E c \in Range(result.columns) \ DataColumns :
                result.rows[i][c] = ResourceOf(result.rows[i])

\* C8 as amended. Every comment of a scrape_multiple_reddit_threads result
\* carries, in source_url, the URL of the thread it came from; the results
\* of scrape_youtube_comments and scrape_reddit_thread carry no resource id.
C8_SourceUrlOnlyInMulti ==
    Returned =>
        IF op = "multi"
           THEN \A i \in 1..Len(result.rows) :
                   /\ "source_url" \in Range(result.columns)
                   /\ result.rows[i].source_url = ResourceOf(result.rows[i])
           ELSE /\ Range(result.columns) \subseteq DataColumns
                /\ \A i \in 1..Len(result.rows) : DOMAIN result.rows[i] \subseteq DataColumns

C8_Witness ==
    /\ pc = "have_df"
    /\ op = "multi"
    /\ \E i, j \in 1..Len(result.rows) :
          /\ i < j
          /\ result.rows[i].source_url # result.rows[j].source_url

(* ------------------------------ export -------------------------------- *)

\* the header row the result of each operation is meant to have
CanonicalColumns ==
    CASE op = "youtube" -> YouTubeColumns
      [] op = "reddit"  -> RedditColumns
      [] op = "multi"   -> Append(RedditColumns, "source_url")

\* C7. Empty export: saving an empty result writes a file holding exactly
\* the header row of field names and no data row.
C7_EmptyExportHasHeader ==
    (pc = "saved" /\ IsEmpty(result))
    => /\ Len(files) = 1
       /\ files[1].data = <<>>
       /\ files[1].header = CanonicalColumns

\* C9. Export is pure serialization: save_to_csv leaves the frame unchanged
\* and writes one data row per comment, in order, with the row's values.
C9_ExportIsPure ==
    /\ [][(pc = "have_df" /\ pc' = "saved") => result' = result]_vars
    /\ [](pc = "saved" =>
             /\ Len(files) = 1
             /\ files[1].header = result.columns
             /\ Len(files[1].data) = Len(result.rows)
             /\ \A i \in 1..Len(result.rows) :
                   /\ Len(files[1].data[i]) = Len(result.columns)
                   /\ \A j \in 1..Len(result.columns) :
                         files[1].data[i][j] = result.rows[i][result.columns[j]])

C9_Witness ==
    /\ pc = "saved"
    /\ op = "multi"
    /\ Len(result.rows) >= 2
    /\ \E i \in 1..Len(result.rows) : result.rows[i].author = "[deleted]"

====
